---------------------------- MODULE Spec2Model ----------------------------
(***************************************************************************)
(* A model of c8y_api/_base_api.py: the class CumulocityRestApi, the       *)
(* generic REST wrapper of the Cumulocity Python API.                      *)
(*                                                                         *)
(* Python values are modelled as follows.                                  *)
(*   - A str whose characters the code inspects (a keyword-argument name,  *)
(*     a header key) is a sequence of one-character strings.               *)
(*   - Any other str is a TLA+ string; None is the record PyNone.          *)
(*   - A dict of headers is a function from header keys to values.         *)
(*   - The outcome of a call is Return(value) or Raise(exception).         *)
(***************************************************************************)
EXTENDS Integers, Sequences, FiniteSets, TLC

VARIABLES
    base_url,         \* self.base_url
    tenant_id,        \* self.tenant_id
    username,         \* self.username
    password,         \* self.password
    tfa_token,        \* self.tfa_token
    application_key,  \* self.application_key
    auth,             \* self.__auth
    default_headers,  \* self.__default_headers
    session,          \* self.session: its auth and its headers
    call,             \* the operation called last, with its arguments
    response,         \* the response the server holds for the last call's request
    sent,             \* the requests the last call put on the wire, in order
    outcome           \* what the last call returned or raised

vars == <<base_url, tenant_id, username, password, tfa_token, application_key,
          auth, default_headers, session, call, response, sent, outcome>>

instance == <<base_url, tenant_id, username, password, tfa_token,
              application_key, auth, default_headers, session>>

(***************************************************************************)
(* Python values                                                           *)
(***************************************************************************)
PyNone == [tag |-> "None"]

PyStr(s) == [tag |-> "str", s |-> s]

PyDict(m) == [tag |-> "dict", map |-> m]

\* bool(v) of None, of a str and of a dict
Truthy(v) ==
    CASE v.tag = "None" -> FALSE
      [] v.tag = "str" -> v.s # ""
      [] v.tag = "dict" -> DOMAIN v.map # {}
      [] OTHER -> TRUE

Return(v) == [kind |-> "return", value |-> v]

Raise(e) == [kind |-> "raise", exc |-> e]

NoCall == [op |-> "none"]

NoResponse == [status_code |-> 0]

NoOutcome == [kind |-> "none"]

\* dict.update(e) on d, and {**d, **e}: the keys of e take e's values
DictUpdate(d, e) ==
    [k \in DOMAIN d \cup DOMAIN e |-> IF k \in DOMAIN e THEN e[k] ELSE d[k]]

EmptyDict == [k \in {} |-> PyNone]

(***************************************************************************)
(* str.upper, str.lower, str.split and str.join on character sequences     *)
(***************************************************************************)
LowerChars == <<"a", "b", "c", "d", "e", "f", "g", "h", "i", "j", "k", "l", "m",
                "n", "o", "p", "q", "r", "s", "t", "u", "v", "w", "x", "y", "z">>

UpperChars == <<"A", "B", "C", "D", "E", "F", "G", "H", "I", "J", "K", "L", "M",
                "N", "O", "P", "Q", "R", "S", "T", "U", "V", "W", "X", "Y", "Z">>

upper(c) ==
    IF \E i \in DOMAIN LowerChars : LowerChars[i] = c
    THEN UpperChars[CHOOSE i \in DOMAIN LowerChars : LowerChars[i] = c]
    ELSE c

lower(c) ==
    IF \E i \in DOMAIN UpperChars : UpperChars[i] = c
    THEN LowerChars[CHOOSE i \in DOMAIN UpperChars : UpperChars[i] = c]
    ELSE c

LowerStr(s) == [i \in DOMAIN s |-> lower(s[i])]

RECURSIVE split(_, _)
split(s, sep) ==
    IF \E i \in DOMAIN s : s[i] = sep
    THEN LET i == CHOOSE j \in DOMAIN s :
                      s[j] = sep /\ \A k \in 1..(j - 1) : s[k] # sep
         IN  <<SubSeq(s, 1, i - 1)>> \o split(SubSeq(s, i + 1, Len(s)), sep)
    ELSE <<s>>

RECURSIVE join(_, _)
join(sep, parts) ==
    IF parts = <<>> THEN <<>>
    ELSE IF Len(parts) = 1 THEN parts[1]
    ELSE parts[1] \o <<sep>> \o join(sep, Tail(parts))

(***************************************************************************)
(* CumulocityRestApi._prepare_headers                                      *)
(***************************************************************************)
\* format_part without the .lower() of the rest of the part
format_part_keeps_case(part) == <<upper(part[1])>> \o Tail(part)

\* part[0].upper() + part[1:].lower(); part[0] of an empty part is an IndexError
format_part(part) ==
    <<upper(part[1])>> \o [i \in 1..(Len(part) - 1) |-> lower(part[i + 1])]

\* the nested function format_key; raised is TRUE when part[0] fails
format_key(key) ==
    LET parts == split(key, "_")
    IN  IF \E i \in DOMAIN parts : parts[i] = <<>>
        THEN [raised |-> TRUE, key |-> <<>>]
        ELSE [raised |-> FALSE,
              key |-> join("-", [i \in DOMAIN parts |-> format_part(parts[i])])]

\* The dict comprehension over kwargs.items(), which are <<name, value>> pairs
\* in the order of the call: a later item replaces an equal key.
RECURSIVE format_items(_)
format_items(items) ==
    IF items = <<>> THEN EmptyDict
    ELSE LET n == Len(items)
             head == format_items(SubSeq(items, 1, n - 1))
             name == items[n][1]
             value == items[n][2]
         IN  IF Truthy(value)
             THEN DictUpdate(head, [k \in {format_key(name).key} |-> value])
             ELSE head

_prepare_headers(kwargs) ==
    IF ~ \E i \in DOMAIN kwargs : Truthy(kwargs[i][2])
    THEN Return(PyNone)
    ELSE IF \E i \in DOMAIN kwargs :
                Truthy(kwargs[i][2]) /\ format_key(kwargs[i][1]).raised
         THEN Raise([type |-> "IndexError"])
         ELSE Return(PyDict(format_items(kwargs)))

(***************************************************************************)
(* Header keys and the values the model draws its inputs from              *)
(***************************************************************************)
K_Accept == <<"A", "c", "c", "e", "p", "t">>

K_ContentType == <<"C", "o", "n", "t", "e", "n", "t", "-", "T", "y", "p", "e">>

K_Tfa == <<"t", "f", "a", "t", "o", "k", "e", "n">>

K_AppKey == <<"X", "-", "C", "u", "m", "u", "l", "o", "c", "i", "t", "y", "-",
              "A", "p", "p", "l", "i", "c", "a", "t", "i", "o", "n", "-",
              "K", "e", "y">>

\* the keyword-argument names the verbs hand to _prepare_headers
N_accept == <<"a", "c", "c", "e", "p", "t">>

N_content_type == <<"c", "o", "n", "t", "e", "n", "t", "_", "t", "y", "p", "e">>

BaseUrls == {"http://base.com"}

Tenants == {"t12345"}

Usernames == {"username"}

Passwords == {"password"}

\* an optional constructor argument: absent, empty, or given
TfaTokens == {PyNone, PyStr(""), PyStr("tfa-1")}

ApplicationKeys == {PyNone, PyStr(""), PyStr("application_key")}

Resources == {"/resource", "some/key"}

Accepts == {PyNone, PyStr("custom/accept")}

ContentTypes == {PyNone, PyStr("custom/content")}

MediaTypes == {PyStr("text/plain")}

Params == {PyNone, PyDict([p1 |-> "v1"])}

\* the json argument of post and put: two mappings and a value that is none
JsonArgs == {PyDict(EmptyDict), PyDict([request |-> "true"]), PyStr("text")}

\* the body argument of prepare_request
RequestBodies == {PyNone, PyDict(EmptyDict), PyDict([request |-> "true"])}

\* the additional_headers argument of prepare_request
AdditionalHeaders ==
    {PyNone, PyDict(EmptyDict),
     PyDict([k \in {K_ContentType} |-> PyStr("custom/content")]),
     PyDict(DictUpdate([k \in {K_Tfa} |-> PyStr("tfa-2")],
                       [k \in {K_AppKey} |-> PyStr("other_key")]))}

Methods == {"GET", "POST"}

Statuses == {200, 201, 204, 400, 404, 499, 500, 503, 599, 600}

(***************************************************************************)
(* A response: its status code and its body.  A body is empty, a JSON      *)
(* object written as its <<key, value>> pairs in wire order, or text that  *)
(* is not JSON.                                                            *)
(***************************************************************************)
EmptyBody == [kind |-> "empty", pairs |-> <<>>, raw |-> ""]

TextBody == [kind |-> "text", pairs |-> <<>>, raw |-> "<html>error</html>"]

\* a list of integers as a value of a JSON object
PyList(items) == [tag |-> "list", items |-> items]

RECURSIVE dumps_items(_)
dumps_items(items) ==
    IF items = <<>> THEN ""
    ELSE (IF Len(items) > 1
          THEN dumps_items(SubSeq(items, 1, Len(items) - 1)) \o ", "
          ELSE "")
         \o ToString(items[Len(items)])

\* the JSON text of a value: a string in quotes, a list in brackets
dumps_value(v) ==
    IF v.tag = "list" THEN "[" \o dumps_items(v.items) \o "]"
    ELSE "\"" \o v.s \o "\""

RECURSIVE dumps_pairs(_)
dumps_pairs(pairs) ==
    IF pairs = <<>> THEN ""
    ELSE (IF Len(pairs) > 1
          THEN dumps_pairs(SubSeq(pairs, 1, Len(pairs) - 1)) \o ", "
          ELSE "")
         \o "\"" \o pairs[Len(pairs)][1] \o "\": "
         \o dumps_value(pairs[Len(pairs)][2])

\* a body that is a JSON object: its <<key, value>> members in the order of
\* the text
ObjectBody(pairs) ==
    [kind |-> "object", pairs |-> pairs, raw |-> "{" \o dumps_pairs(pairs) \o "}"]

\* the body of test_get_ordered_response
OrderedBody ==
    ObjectBody(<< <<"list", PyList(<<1, 2, 3, 4, 5>>)>>, <<"x", PyStr("xxx")>>,
                  <<"m", PyStr("mmm")>>, <<"c", PyStr("ccc")>> >>)

\* an object that names the key x twice
RepeatedKeyBody ==
    ObjectBody(<< <<"x", PyStr("1")>>, <<"m", PyStr("mmm")>>,
                  <<"x", PyStr("2")>> >>)

Bodies == {EmptyBody, TextBody, ObjectBody(<<>>), OrderedBody, RepeatedKeyBody}

Responses == [status_code : Statuses, body : Bodies]

\* r.content is truthy when the body has at least one byte
content(r) == r.body.kind # "empty"

\* r.text
text(r) == r.body.raw

\* The keys of a JSON object in the order of their last appearance
RECURSIVE key_order_of_last_appearance(_)
key_order_of_last_appearance(pairs) ==
    IF pairs = <<>> THEN <<>>
    ELSE LET rest == key_order_of_last_appearance(Tail(pairs))
         IN  IF \E i \in DOMAIN rest : rest[i] = pairs[1][1]
             THEN rest
             ELSE <<pairs[1][1]>> \o rest

\* The keys of a JSON object in the order of their first appearance
RECURSIVE key_order(_)
key_order(pairs) ==
    IF pairs = <<>> THEN <<>>
    ELSE LET n == Len(pairs)
             head == key_order(SubSeq(pairs, 1, n - 1))
         IN  IF \E i \in DOMAIN head : head[i] = pairs[n][1]
             THEN head
             ELSE Append(head, pairs[n][1])

\* The mapping a JSON object decodes to: a repeated key keeps its last value
RECURSIVE key_values(_)
key_values(pairs) ==
    IF pairs = <<>> THEN EmptyDict
    ELSE LET n == Len(pairs)
         IN  DictUpdate(key_values(SubSeq(pairs, 1, n - 1)),
                        [k \in {pairs[n][1]} |-> pairs[n][2]])

\* r.json() and r.json(object_pairs_hook=collections.OrderedDict)
json(r, ordered) ==
    IF r.body.kind = "object"
    THEN Return(IF ordered
                THEN [tag |-> "OrderedDict", keys |-> key_order(r.body.pairs),
                      map |-> key_values(r.body.pairs)]
                ELSE PyDict(key_values(r.body.pairs)))
    ELSE Raise([type |-> "JSONDecodeError"])

(***************************************************************************)
(* The requests library, as the wrapper uses it                            *)
(***************************************************************************)
\* CaseInsensitiveDict(d).update(e): a key of e replaces the key of d that
\* differs from it in case only
CaseInsensitiveUpdate(d, e) ==
    LET kept == {k \in DOMAIN d :
                    \A j \in DOMAIN e : LowerStr(j) # LowerStr(k)}
    IN  [k \in kept \cup DOMAIN e |-> IF k \in DOMAIN e THEN e[k] ELSE d[k]]

\* requests.sessions.merge_setting on headers: the request's headers over the
\* session's, and the keys set to None removed
merge_setting(request_headers, session_headers) ==
    LET merged == CaseInsensitiveUpdate(session_headers, request_headers)
    IN  [k \in {j \in DOMAIN merged : merged[j].tag # "None"} |-> merged[k]]

\* PreparedRequest.prepare_body: a body sets Content-Type unless one is given
prepare_body(headers, body) ==
    LET given == \E k \in DOMAIN headers : LowerStr(k) = LowerStr(K_ContentType)
        content_type ==
            CASE body.kind = "json" -> PyStr("application/json")
              [] body.kind = "files" -> PyStr("multipart/form-data")
              [] OTHER -> PyNone
    IN  IF content_type # PyNone /\ ~ given
        THEN DictUpdate(headers, [k \in {K_ContentType} |-> content_type])
        ELSE headers

NoBody == [kind |-> "none"]

\* the headers= argument of a request: None stands for no headers
HeadersArg(h) == IF h.tag = "None" THEN EmptyDict ELSE h.map

\* Session.request: the request a session verb puts on the wire.  auth_arg is
\* the auth= argument, or PyNone for the session's auth.
session_request(method, resource, params, headers, auth_arg, body) ==
    [method |-> method,
     url |-> base_url \o resource,
     params |-> params,
     headers |-> prepare_body(
                     merge_setting(HeadersArg(headers), session.headers), body),
     auth |-> IF auth_arg = PyNone THEN session.auth ELSE auth_arg,
     body |-> body]

(***************************************************************************)
(* CumulocityRestApi.__init__ and _create_session                          *)
(***************************************************************************)
\* self.__default_headers as __init__ builds it
init_default_headers(tfa, key) ==
    DictUpdate(IF Truthy(tfa) THEN [k \in {K_Tfa} |-> tfa] ELSE EmptyDict,
               IF Truthy(key) THEN [k \in {K_AppKey} |-> key] ELSE EmptyDict)

_create_session(the_auth, key) ==
    [auth |-> the_auth,
     headers |-> DictUpdate(
                     [k \in {K_Accept} |-> PyStr("application/json")],
                     IF Truthy(key) THEN [k \in {K_AppKey} |-> key]
                     ELSE EmptyDict)]

\* f'{tenant_id}/{username}', password
make_auth(tenant, user, pass) == <<tenant \o "/" \o user, pass>>

Construct(url, tenant, user, pass, tfa, key) ==
    /\ base_url = url
    /\ tenant_id = tenant
    /\ username = user
    /\ password = pass
    /\ tfa_token = tfa
    /\ application_key = key
    /\ auth = make_auth(tenant, user, pass)
    /\ default_headers = init_default_headers(tfa, key)
    /\ session = _create_session(make_auth(tenant, user, pass), key)

Idle ==
    /\ call = NoCall
    /\ response = NoResponse
    /\ sent = <<>>
    /\ outcome = NoOutcome

Init ==
    /\ \E url \in BaseUrls, tenant \in Tenants, user \in Usernames,
          pass \in Passwords, tfa \in TfaTokens, key \in ApplicationKeys :
            Construct(url, tenant, user, pass, tfa, key)
    /\ Idle

(***************************************************************************)
(* The verbs: how each reads the response                                  *)
(***************************************************************************)
\* the names bound in the module _base_api by its imports and its class
ModuleGlobals == {"sys", "Union", "requests", "collections", "CumulocityRestApi"}

KeyError(resource) ==
    Raise([type |-> "KeyError", msg |-> <<"No such object: ", resource>>])

SyntaxError(verb, r) ==
    Raise([type |-> "SyntaxError",
           msg |-> <<"Invalid " \o verb \o " request. Status: ",
                     ToString(r.status_code), " Response:\n", text(r)>>])

ValueError(verb, r) ==
    Raise([type |-> "ValueError",
           msg |-> <<"Unable to perform " \o verb \o " request. Status: ",
                     ToString(r.status_code), " Response:\n", text(r)>>])

\* post_file's ValueError, whose arguments are a message and two pairs
ValueErrorArgs(r) ==
    Raise([type |-> "ValueError",
           msg |-> <<"Unable to perform POST request.", "Status",
                     ToString(r.status_code), "Response", text(r)>>])

get_result(resource, ordered, r) ==
    IF r.status_code = 404 THEN KeyError(resource)
    ELSE IF 500 <= r.status_code /\ r.status_code <= 599
    THEN SyntaxError("GET", r)
    ELSE IF r.status_code # 200 THEN ValueError("GET", r)
    ELSE IF content(r) THEN json(r, ordered)
    ELSE Return(PyDict(EmptyDict))

\* post_result without the test of r.content
post_result_without_content_check(r) ==
    IF 500 <= r.status_code /\ r.status_code <= 599
    THEN SyntaxError("POST", r)
    ELSE IF r.status_code # 201 /\ r.status_code # 200
    THEN ValueError("POST", r)
    ELSE json(r, FALSE)

post_result(r) ==
    IF 500 <= r.status_code /\ r.status_code <= 599
    THEN SyntaxError("POST", r)
    ELSE IF r.status_code # 201 /\ r.status_code # 200
    THEN ValueError("POST", r)
    ELSE IF content(r) THEN json(r, FALSE)
    ELSE Return(PyDict(EmptyDict))

post_file_result(r) ==
    IF 500 <= r.status_code /\ r.status_code <= 599
    THEN SyntaxError("POST", r)
    ELSE IF r.status_code # 201 THEN ValueErrorArgs(r)
    ELSE json(r, FALSE)

put_result(resource, r) ==
    IF r.status_code = 404 THEN KeyError(resource)
    ELSE IF 500 <= r.status_code /\ r.status_code <= 599
    THEN SyntaxError("PUT", r)
    ELSE IF r.status_code # 200 THEN ValueError("PUT", r)
    ELSE IF content(r) THEN json(r, FALSE)
    ELSE Return(PyDict(EmptyDict))

put_file_result(resource, r) ==
    IF r.status_code = 404 THEN KeyError(resource)
    ELSE IF 500 <= r.status_code /\ r.status_code <= 599
    THEN SyntaxError("PUT", r)
    ELSE IF r.status_code # 201 THEN ValueError("PUT", r)
    ELSE Return(PyNone)

delete_result(resource, r) ==
    IF r.status_code = 404 THEN KeyError(resource)
    ELSE IF 500 <= r.status_code /\ r.status_code <= 599
    THEN SyntaxError("DELETE", r)
    ELSE IF r.status_code # 204 /\ r.status_code # 200
    THEN ValueError("DELETE", r)
    ELSE Return(PyNone)

(***************************************************************************)
(* The operations.  A call starts when the caller holds no pending outcome *)
(* and runs to its return or raise in one step; r is the response the      *)
(* server answers a request of this call with.                             *)
(***************************************************************************)
Finish(c, r, requests, result) ==
    /\ call' = c
    /\ response' = r
    /\ sent' = requests
    /\ outcome' = result

\* a file-like object, or None
Files == {PyNone, [tag |-> "file", data |-> "bytes", sizeof |-> "208"]}

\* the binary_meta_information argument: a Binary, or a value that is none
Metas == {[tag |-> "Binary", full_json |-> "{'name': 'n'}"], PyNone}

PrepareRequest ==
    /\ call = NoCall
    /\ \E method \in Methods, resource \in Resources, body \in RequestBodies,
          additional_headers \in AdditionalHeaders :
         LET hs == IF Truthy(additional_headers)
                   THEN DictUpdate(default_headers, additional_headers.map)
                   ELSE default_headers
             rq_body == IF Truthy(body) THEN [kind |-> "json", json |-> body]
                        ELSE NoBody
             rq == [method |-> method,
                    url |-> base_url \o resource,
                    params |-> PyNone,
                    headers |-> prepare_body(hs, rq_body),
                    auth |-> auth,
                    body |-> rq_body]
         IN  /\ default_headers' = hs
             /\ Finish([op |-> "prepare_request", method |-> method,
                        resource |-> resource, body |-> body,
                        additional_headers |-> additional_headers],
                       NoResponse, <<>>,
                       Return([tag |-> "PreparedRequest", request |-> rq]))
    /\ UNCHANGED <<base_url, tenant_id, username, password, tfa_token,
                   application_key, auth, session>>

Get ==
    /\ call = NoCall
    /\ \E resource \in Resources, params \in Params, accept \in Accepts,
          ordered \in BOOLEAN, r \in Responses :
         LET c == [op |-> "get", resource |-> resource, params |-> params,
                   accept |-> accept, ordered |-> ordered]
             additional_headers == _prepare_headers(<< <<N_accept, accept>> >>)
         IN  IF additional_headers.kind = "raise"
             THEN Finish(c, r, <<>>, additional_headers)
             ELSE Finish(c, r,
                         <<session_request("GET", resource, params,
                                           additional_headers.value, PyNone,
                                           NoBody)>>,
                         get_result(resource, ordered, r))
    /\ UNCHANGED instance

Post ==
    /\ call = NoCall
    /\ \E resource \in Resources, js \in JsonArgs, accept \in Accepts,
          content_type \in ContentTypes, r \in Responses :
         LET c == [op |-> "post", resource |-> resource, json |-> js,
                   accept |-> accept, content_type |-> content_type]
             additional_headers ==
                 _prepare_headers(<< <<N_accept, accept>>,
                                     <<N_content_type, content_type>> >>)
         IN  IF js.tag # "dict"
             THEN Finish(c, r, <<>>, Raise([type |-> "AssertionError"]))
             ELSE IF additional_headers.kind = "raise"
             THEN Finish(c, r, <<>>, additional_headers)
             ELSE Finish(c, r,
                         <<session_request("POST", resource, PyNone,
                                           additional_headers.value, PyNone,
                                           [kind |-> "json", json |-> js])>>,
                         post_result(r))
    /\ UNCHANGED instance

PostFile ==
    /\ call = NoCall
    /\ \E resource \in Resources, file \in Files,
          binary_meta_information \in Metas, r \in Responses :
         LET c == [op |-> "post_file", resource |-> resource, file |-> file,
                   binary_meta_information |-> binary_meta_information]
             headers ==
                 DictUpdate([k \in {K_Accept} |-> PyStr("application/json")],
                            default_headers)
             payload == [object |-> binary_meta_information.full_json,
                         filesize |-> file.sizeof,
                         file |-> file.data]
         IN  IF "Binary" \notin ModuleGlobals
             THEN Finish(c, r, <<>>, Raise([type |-> "NameError"]))
             ELSE IF binary_meta_information.tag # "Binary" \/ file = PyNone
             THEN Finish(c, r, <<>>, Raise([type |-> "AssertionError"]))
             ELSE Finish(c, r,
                         <<session_request("POST", resource, PyNone,
                                           PyDict(headers), auth,
                                           [kind |-> "files", files |-> payload])>>,
                         post_file_result(r))
    /\ UNCHANGED instance

Put ==
    /\ call = NoCall
    /\ \E resource \in Resources, js \in JsonArgs, accept \in Accepts,
          content_type \in ContentTypes, r \in Responses :
         LET c == [op |-> "put", resource |-> resource, json |-> js,
                   accept |-> accept, content_type |-> content_type]
             additional_headers ==
                 _prepare_headers(<< <<N_accept, accept>>,
                                     <<N_content_type, content_type>> >>)
         IN  IF js.tag # "dict"
             THEN Finish(c, r, <<>>, Raise([type |-> "AssertionError"]))
             ELSE IF additional_headers.kind = "raise"
             THEN Finish(c, r, <<>>, additional_headers)
             ELSE Finish(c, r,
                         <<session_request("PUT", resource, PyNone,
                                           additional_headers.value, PyNone,
                                           [kind |-> "json", json |-> js])>>,
                         put_result(resource, r))
    /\ UNCHANGED instance

\* {'Content-Type': media_type, **self.__default_headers}, a dict of its own,
\* updating the default headers in place instead
put_file_headers_updating_defaults(media_type) ==
    LET hs == DictUpdate([k \in {K_ContentType} |-> media_type], default_headers)
    IN  [headers |-> hs, default_headers |-> hs]

\* headers = {'Content-Type': media_type, **self.__default_headers}: the dict
\* display builds a dict of its own, and self.__default_headers stays as it is
put_file_headers(media_type) ==
    [headers |-> DictUpdate([k \in {K_ContentType} |-> media_type],
                            default_headers),
     default_headers |-> default_headers]

PutFile ==
    /\ call = NoCall
    /\ \E resource \in Resources, file \in Files, media_type \in MediaTypes,
          r \in Responses :
         LET c == [op |-> "put_file", resource |-> resource, file |-> file,
                   media_type |-> media_type]
             built == put_file_headers(media_type)
         IN  /\ default_headers' = built.default_headers
             /\ IF file = PyNone
                THEN Finish(c, r, <<>>, Raise([type |-> "AttributeError"]))
                ELSE Finish(c, r,
                            <<session_request("PUT", resource, PyNone,
                                              PyDict(built.headers), auth,
                                              [kind |-> "data",
                                               data |-> file.data])>>,
                            put_file_result(resource, r))
    /\ UNCHANGED <<base_url, tenant_id, username, password, tfa_token,
                   application_key, auth, session>>

Delete ==
    /\ call = NoCall
    /\ \E resource \in Resources, r \in Responses :
         Finish([op |-> "delete", resource |-> resource], r,
                <<session_request("DELETE", resource, PyNone, PyNone, PyNone,
                                  NoBody)>>,
                delete_result(resource, r))
    /\ UNCHANGED instance

\* the caller takes the outcome of the call and goes on
ReturnToCaller ==
    /\ call # NoCall
    /\ call' = NoCall
    /\ response' = NoResponse
    /\ sent' = <<>>
    /\ outcome' = NoOutcome
    /\ UNCHANGED instance

Next ==
    \/ PrepareRequest
    \/ Get
    \/ Post
    \/ PostFile
    \/ Put
    \/ PutFile
    \/ Delete
    \/ ReturnToCaller

Spec == Init /\ [][Next]_vars

(***************************************************************************)
(* _prepare_headers on its own: the class method applied to bounded sets   *)
(* of keyword arguments, on the instance the unit tests construct.         *)
(***************************************************************************)
MaxNameLen == 2

MaxMoreNameLen == 1

MaxArgs == 2

NameChars == {"a", "A", "_"}

\* the identifiers of at most n characters
NamesUpTo(n) == UNION {[1..m -> NameChars] : m \in 1..n}

some_name == <<"s", "o", "m", "e", "_", "n", "a", "m", "e">>

mORE_Of_this == <<"m", "O", "R", "E", "_", "O", "f", "_", "t", "h", "i", "s">>

\* names the wrapper and its unit tests pass, and names of two segments and
\* with a doubled underscore
ExampleNames ==
    {N_accept, N_content_type, some_name, mORE_Of_this,
     <<"a", "_", "A">>, <<"a", "_", "_", "A">>}

\* the name of the i-th keyword argument: the first is an example name or has
\* up to MaxNameLen characters, each further one has up to MaxMoreNameLen
Names(i) ==
    IF i = 1 THEN NamesUpTo(MaxNameLen) \cup ExampleNames
    ELSE NamesUpTo(MaxMoreNameLen)

\* the value of the i-th keyword argument: absent, empty, or a string of its
\* own ("v1", "v2", ...), so that the values of two arguments can be told apart
ValueKinds == {"absent", "empty", "given"}

Value(i, kind) ==
    CASE kind = "absent" -> PyNone
      [] kind = "empty" -> PyStr("")
      [] OTHER -> PyStr("v" \o ToString(i))

\* the names of n keyword arguments in the order of the call, no name twice
RECURSIVE NameSeqs(_)
NameSeqs(n) ==
    IF n = 0 THEN {<<>>}
    ELSE {Append(names, name) :
              <<names, name>> \in
                  {p \in NameSeqs(n - 1) \X Names(n) :
                      \A i \in DOMAIN p[1] : p[1][i] # p[2]}}

\* _prepare_headers(**kwargs): the keyword arguments are n names, each with a
\* value
PrepareHeaders ==
    /\ call = NoCall
    /\ \E n \in 0..MaxArgs :
         \E names \in NameSeqs(n), kinds \in [1..n -> ValueKinds] :
            /\ LET kwargs == [i \in 1..n |-> <<names[i], Value(i, kinds[i])>>]
               IN  Finish([op |-> "_prepare_headers", kwargs |-> kwargs],
                          NoResponse, <<>>, _prepare_headers(kwargs))
    /\ UNCHANGED instance

InitHeaders ==
    /\ Construct("http://base.com", "t12345", "username", "password", PyNone,
                 PyStr("application_key"))
    /\ Idle

NextHeaders == PrepareHeaders

SpecHeaders == InitHeaders /\ [][NextHeaders]_vars

(***************************************************************************)
(* What the claims speak of                                                *)
(***************************************************************************)
Verbs == {"get", "post", "post_file", "put", "put_file", "delete"}

\* a verb was called and has returned or raised
VerbCalled == call.op \in Verbs

\* the arguments satisfy the verb's documented preconditions: a mapping as the
\* json of post and put, a Binary and a file for post_file, a file for put_file
ValidArguments ==
    CASE call.op \in {"post", "put"} -> call.json.tag = "dict"
      [] call.op = "post_file" ->
            call.binary_meta_information.tag = "Binary" /\ call.file # PyNone
      [] call.op = "put_file" -> call.file # PyNone
      [] OTHER -> TRUE

SuccessStatuses(op) ==
    CASE op = "get" -> {200}
      [] op = "post" -> {200, 201}
      [] op = "post_file" -> {201}
      [] op = "put" -> {200}
      [] op = "put_file" -> {201}
      [] op = "delete" -> {200, 204}

Raised(type) == outcome.kind = "raise" /\ outcome.exc.type = type

\* the message of the exception raised holds the string s
MessageHolds(s) == \E i \in DOMAIN outcome.exc.msg : outcome.exc.msg[i] = s

\* the call names an accept value of its own
AcceptOverridden == "accept" \in DOMAIN call /\ Truthy(call.accept)

\* get was called with ordered=True, and the response has status 200 and a
\* body that is a JSON object
OrderedGet ==
    /\ call.op = "get"
    /\ call.ordered
    /\ response.status_code = 200
    /\ response.body.kind = "object"

\* the keys of the members of the body, in the order of the text
BodyKeys == [i \in DOMAIN response.body.pairs |-> response.body.pairs[i][1]]

\* the places of key k in the body
Places(k) == {i \in DOMAIN BodyKeys : BodyKeys[i] = k}

First(k) == CHOOSE i \in Places(k) : \A j \in Places(k) : i <= j

Last(k) == CHOOSE i \in Places(k) : \A j \in Places(k) : j <= i

\* key is name in header case: "-" for "_", the first letter of each segment
\* in upper case and every other letter in lower case
IsHeaderCase(name, key) ==
    /\ Len(key) = Len(name)
    /\ \A i \in DOMAIN name :
          key[i] = IF name[i] = "_" THEN "-"
                   ELSE IF i = 1 \/ name[i - 1] = "_" THEN upper(name[i])
                   ELSE lower(name[i])

\* name has an empty segment: a leading, a trailing or a doubled underscore
HasEmptySegment(name) ==
    \/ name[1] = "_"
    \/ name[Len(name)] = "_"
    \/ \E i \in 1..(Len(name) - 1) : name[i] = "_" /\ name[i + 1] = "_"

\* the keyword arguments of the call that have a value
Given == {i \in DOMAIN call.kwargs : Truthy(call.kwargs[i][2])}

(***************************************************************************)
(* C7 as stated: for all sets of named parameters, _prepare_headers        *)
(* returns None exactly when no parameter has a value, and otherwise a     *)
(* mapping that holds, for each parameter with a value, the header-case    *)
(* key of its name mapped to its unchanged value, and no key for a         *)
(* parameter whose value is absent or empty.                               *)
(***************************************************************************)
C7_AsStated ==
    call.op = "_prepare_headers" =>
        /\ (outcome = Return(PyNone)) <=> (Given = {})
        /\ Given # {} =>
              /\ outcome.kind = "return"
              /\ outcome.value.tag = "dict"
              /\ \A i \in DOMAIN call.kwargs :
                    LET held == {k \in DOMAIN outcome.value.map :
                                    IsHeaderCase(call.kwargs[i][1], k)}
                    IN  IF i \in Given
                        THEN /\ held # {}
                             /\ \A k \in held :
                                   outcome.value.map[k] = call.kwargs[i][2]
                        ELSE held = {}

(***************************************************************************)
(* C7 as amended: _prepare_headers returns None exactly when no parameter  *)
(* has a value.  When a parameter with a value has a name with an empty    *)
(* segment, the call raises IndexError.  Otherwise the result is a mapping *)
(* whose keys are exactly the header-case keys of the parameters with a    *)
(* value, each mapped to the unchanged value of the last such parameter    *)
(* that has this key; some_name gives Some-Name and mORE_Of_this gives     *)
(* More-Of-This.                                                           *)
(***************************************************************************)
C7_HeaderFormat ==
    call.op = "_prepare_headers" =>
        /\ (outcome = Return(PyNone)) <=> (Given = {})
        /\ (\E i \in Given : HasEmptySegment(call.kwargs[i][1]))
              => outcome = Raise([type |-> "IndexError"])
        /\ (Given # {} /\ \A i \in Given : ~ HasEmptySegment(call.kwargs[i][1]))
              => /\ outcome.kind = "return"
                 /\ outcome.value.tag = "dict"
                 /\ \A k \in DOMAIN outcome.value.map :
                       \E i \in Given : IsHeaderCase(call.kwargs[i][1], k)
                 /\ \A i \in Given :
                       /\ call.kwargs[i][1] = some_name =>
                             <<"S", "o", "m", "e", "-", "N", "a", "m", "e">>
                                 \in DOMAIN outcome.value.map
                       /\ call.kwargs[i][1] = mORE_Of_this =>
                             <<"M", "o", "r", "e", "-", "O", "f", "-",
                               "T", "h", "i", "s">>
                                 \in DOMAIN outcome.value.map
                 /\ \A i \in Given :
                       \E k \in DOMAIN outcome.value.map :
                          /\ IsHeaderCase(call.kwargs[i][1], k)
                          /\ LET last == CHOOSE j \in Given :
                                     /\ IsHeaderCase(call.kwargs[j][1], k)
                                     /\ \A l \in Given :
                                           IsHeaderCase(call.kwargs[l][1], k)
                                               => l <= j
                             IN  outcome.value.map[k] = call.kwargs[last][2]

\* a call with mORE_Of_this, which has a value, and a second parameter, which
\* has none, returned the mapping of More-Of-This alone
C7_Witness ==
    /\ call.op = "_prepare_headers"
    /\ Len(call.kwargs) = 2
    /\ call.kwargs[1] = <<mORE_Of_this, PyStr("v1")>>
    /\ ~ Truthy(call.kwargs[2][2])
    /\ outcome = Return(PyDict(
           [k \in {<<"M", "o", "r", "e", "-", "O", "f", "-", "T", "h", "i", "s">>}
               |-> PyStr("v1")]))

(***************************************************************************)
(* C1 as stated: for every verb and every status code, a call with valid   *)
(* arguments returns without raising exactly when the status is in the     *)
(* verb's success set, and delete and put_file return no value on success. *)
(* Stated for responses whose body is empty or a JSON object.              *)
(***************************************************************************)
C1_AsStated ==
    (VerbCalled /\ ValidArguments /\ response.body.kind # "text") =>
        /\ (outcome.kind = "return")
              <=> (response.status_code \in SuccessStatuses(call.op))
        /\ (call.op \in {"delete", "put_file"} /\ outcome.kind = "return")
              => outcome.value = PyNone

(***************************************************************************)
(* C2 as stated: status 404 on get, put, put_file or delete raises the     *)
(* KeyError whose message holds the resource path; status 404 on post or   *)
(* post_file raises the ValueError kind.                                   *)
(***************************************************************************)
C2_AsStated ==
    (VerbCalled /\ ValidArguments /\ response.status_code = 404) =>
        IF call.op \in {"get", "put", "put_file", "delete"}
        THEN Raised("KeyError") /\ MessageHolds(call.resource)
        ELSE Raised("ValueError")

(***************************************************************************)
(* C3 as stated: for all six verbs and every status code in 500..599 the   *)
(* call raises the SyntaxError kind, whose message carries the status code *)
(* and the raw response text.                                              *)
(***************************************************************************)
C3_AsStated ==
    (/\ VerbCalled
     /\ ValidArguments
     /\ response.status_code \in 500..599) =>
        /\ Raised("SyntaxError")
        /\ MessageHolds(ToString(response.status_code))
        /\ MessageHolds(text(response))

(***************************************************************************)
(* C4 as stated: for every verb, a status that is not in the success set,  *)
(* not in 500..599 and not a 404 on get, put, put_file or delete raises    *)
(* the ValueError kind, whose message carries the status code and the      *)
(* response text.                                                          *)
(***************************************************************************)
C4_AsStated ==
    (/\ VerbCalled
     /\ ValidArguments
     /\ response.status_code \notin SuccessStatuses(call.op)
     /\ response.status_code \notin 500..599
     /\ ~ (/\ response.status_code = 404
           /\ call.op \in {"get", "put", "put_file", "delete"})) =>
        /\ Raised("ValueError")
        /\ MessageHolds(ToString(response.status_code))
        /\ MessageHolds(text(response))

(***************************************************************************)
(* C5 as stated: a verb call sends no request when post or put is given a  *)
(* json argument that is no mapping, and exactly one request in every      *)
(* other case.  Stated for calls of post_file and put_file with valid      *)
(* arguments.                                                              *)
(***************************************************************************)
C5_AsStated ==
    (VerbCalled /\ (call.op \in {"post_file", "put_file"} => ValidArguments)) =>
        Len(sent) = IF call.op \in {"post", "put"} /\ call.json.tag # "dict"
                    THEN 0
                    ELSE 1

(***************************************************************************)
(* C6: when get, post or put receives a success status, an empty body      *)
(* gives the empty mapping and never a failure, and a JSON object gives    *)
(* the mapping of its keys, each to the value the body gives it last.      *)
(***************************************************************************)
C6_SuccessBody ==
    (/\ call.op \in {"get", "post", "put"}
     /\ sent # <<>>
     /\ response.status_code \in SuccessStatuses(call.op)) =>
        LET pairs == response.body.pairs
        IN  /\ response.body.kind = "empty"
                  => outcome = Return(PyDict(EmptyDict))
            /\ response.body.kind = "object" =>
                  /\ outcome.kind = "return"
                  /\ DOMAIN outcome.value.map =
                         {pairs[i][1] : i \in DOMAIN pairs}
                  /\ \A i \in DOMAIN pairs :
                        (\A j \in DOMAIN pairs : j > i => pairs[j][1] # pairs[i][1])
                            => outcome.value.map[pairs[i][1]] = pairs[i][2]

\* post received 201 with an empty body and returned the empty mapping
C6_Witness ==
    /\ call.op = "post"
    /\ Len(sent) = 1
    /\ response.status_code = 201
    /\ response.body = EmptyBody
    /\ outcome = Return(PyDict(EmptyDict))

(***************************************************************************)
(* C8 as stated: with a two-factor token configured, the request of every  *)
(* verb call carries the tfatoken header with that token, as it carries    *)
(* the application-key header when an application key is configured.       *)
(***************************************************************************)
C8_AsStated ==
    (VerbCalled /\ sent # <<>>) =>
        /\ Truthy(tfa_token) =>
              /\ K_Tfa \in DOMAIN sent[1].headers
              /\ sent[1].headers[K_Tfa] = tfa_token
        /\ Truthy(application_key) =>
              /\ K_AppKey \in DOMAIN sent[1].headers
              /\ sent[1].headers[K_AppKey] = application_key

(***************************************************************************)
(* C9 as stated: after any sequence of operations the default headers      *)
(* equal the mapping built at construction from the two-factor token and   *)
(* the application key.                                                    *)
(***************************************************************************)
C9_AsStated == default_headers = init_default_headers(tfa_token, application_key)

(***************************************************************************)
(* C10 as stated: in every reachable state, a header given to a call       *)
(* (accept and content_type of get, post and put, media_type of put_file   *)
(* as Content-Type, additional_headers of prepare_request) is the value    *)
(* the request carries under its key, whatever the default and session     *)
(* headers hold.                                                           *)
(***************************************************************************)
C10_AsStated ==
    /\ (call.op \in {"get", "post", "put"} /\ sent # <<>>) =>
          /\ Truthy(call.accept) =>
                /\ K_Accept \in DOMAIN sent[1].headers
                /\ sent[1].headers[K_Accept] = call.accept
          /\ (call.op # "get" /\ Truthy(call.content_type)) =>
                /\ K_ContentType \in DOMAIN sent[1].headers
                /\ sent[1].headers[K_ContentType] = call.content_type
    /\ (call.op = "put_file" /\ sent # <<>>) =>
          /\ K_ContentType \in DOMAIN sent[1].headers
          /\ sent[1].headers[K_ContentType] = call.media_type
    /\ (call.op = "prepare_request" /\ Truthy(call.additional_headers)) =>
          \A k \in DOMAIN call.additional_headers.map :
             /\ k \in DOMAIN outcome.value.request.headers
             /\ outcome.value.request.headers[k] = call.additional_headers.map[k]


(***************************************************************************)
(* C11 as stated: the request of every verb call carries the credentials   *)
(* whose principal is "{tenant}/{username}" and whose secret is the        *)
(* password given at construction, carries the X-Cumulocity-Application-   *)
(* Key header with the configured value when an application key was        *)
(* configured, and, when the call names no accept value, carries the       *)
(* Accept header application/json.                                         *)
(***************************************************************************)
C11_AsStated ==
    (VerbCalled /\ sent # <<>>) =>
        /\ sent[1].auth = <<tenant_id \o "/" \o username, password>>
        /\ Truthy(application_key) =>
              /\ K_AppKey \in DOMAIN sent[1].headers
              /\ sent[1].headers[K_AppKey] = application_key
        /\ ~ AcceptOverridden =>
              /\ K_Accept \in DOMAIN sent[1].headers
              /\ sent[1].headers[K_Accept] = PyStr("application/json")

(***************************************************************************)
(* C12 as stated: get with ordered=True and status 200 returns, for every  *)
(* body that is a JSON object, a mapping whose keys appear in exactly the  *)
(* order they have in the body, each key bound to the value it has in the  *)
(* body.                                                                   *)
(***************************************************************************)
C12_AsStated ==
    OrderedGet =>
        /\ outcome.kind = "return"
        /\ outcome.value.tag = "OrderedDict"
        /\ outcome.value.keys = BodyKeys
        /\ \A i \in DOMAIN response.body.pairs :
              outcome.value.map[BodyKeys[i]] = response.body.pairs[i][2]

(***************************************************************************)
(* C12 as amended: get with ordered=True and status 200 returns, for every *)
(* body that is a JSON object, a mapping that holds each key of the body   *)
(* once, in the order in which the keys first appear in the body, each key *)
(* bound to the value of its last appearance.  For a body that names no    *)
(* key twice these are the keys in exactly the order of the body with the  *)
(* values of the body; body keys list, x, m, c give the key order list, x, *)
(* m, c.                                                                   *)
(***************************************************************************)
C12_KeyOrder ==
    OrderedGet =>
        /\ outcome.kind = "return"
        /\ outcome.value.tag = "OrderedDict"
        /\ LET keys == outcome.value.keys
           IN  /\ {keys[a] : a \in DOMAIN keys} =
                      {BodyKeys[i] : i \in DOMAIN BodyKeys}
               /\ DOMAIN outcome.value.map = {keys[a] : a \in DOMAIN keys}
               /\ \A a, b \in DOMAIN keys :
                     a < b => First(keys[a]) < First(keys[b])
               /\ \A a \in DOMAIN keys :
                     outcome.value.map[keys[a]] =
                        response.body.pairs[Last(keys[a])][2]
               /\ (\A i, j \in DOMAIN BodyKeys :
                       BodyKeys[i] = BodyKeys[j] => i = j)
                     => keys = BodyKeys
        /\ response.body = OrderedBody =>
              /\ outcome.value.keys = <<"list", "x", "m", "c">>
              /\ outcome.value.map["list"] = PyList(<<1, 2, 3, 4, 5>>)

\* get with ordered=True returned the keys list, x, m, c of the body of
\* test_get_ordered_response in this order
C12_Witness ==
    /\ OrderedGet
    /\ response.body = OrderedBody
    /\ outcome.kind = "return"
    /\ outcome.value.keys = <<"list", "x", "m", "c">>

(***************************************************************************)
(* C13: each call of get, post, post_file, put, put_file and delete leaves *)
(* the base URL, the credentials, the authentication principal, the        *)
(* default headers and the session with its default headers as they were   *)
(* before the call, whether the call returns or raises and whatever        *)
(* headers the call was given.                                             *)
(***************************************************************************)
C13_Frame ==
    [][(call = NoCall /\ call'.op \in Verbs) =>
           /\ base_url' = base_url
           /\ tenant_id' = tenant_id
           /\ username' = username
           /\ password' = password
           /\ tfa_token' = tfa_token
           /\ application_key' = application_key
           /\ auth' = auth
           /\ default_headers' = default_headers
           /\ session' = session]_vars

\* put_file was called on an instance whose default headers hold no
\* Content-Type, sent its request with a Content-Type and raised
C13_Witness ==
    /\ call.op = "put_file"
    /\ sent # <<>>
    /\ K_ContentType \in DOMAIN sent[1].headers
    /\ K_ContentType \notin DOMAIN default_headers
    /\ outcome.kind = "raise"

=============================================================================
